---- MODULE Spec2Model ----
(***************************************************************************)
(* Model of the SEO analyzer server (server/index.js): the analysis        *)
(* function analyzeSEO, the insertion function insertKeywordIntelligently  *)
(* and the two POST handlers.  A string is kept as the sequence of its     *)
(* runs of equal characters; the regular expressions of the source are     *)
(* modelled by what they match.  Fractions are kept exact as               *)
(* <<numerator, denominator>>.                                             *)
(***************************************************************************)
EXTENDS Integers, Sequences, FiniteSets, TLC

\* ------------------------------------------------------------------ bounds
\* number of chunks a request text is built from
MaxChunks == 2
\* Math.random() returns r / RandRes for r in 0..RandRes-1
RandRes == 5
\* number of insert requests the client issues in a row
MaxCalls == 2

\* ------------------------------------------------------- program constants
MaxTextLength == 50000
MinSentenceLength == 10
TopKeywordCap == 10
SuggestedCap == 8

\* -------------------------------------------------------------- characters
UpperChars ==
  <<"A","B","C","D","E","F","G","H","I","J","K","L","M",
    "N","O","P","Q","R","S","T","U","V","W","X","Y","Z">>

LowerChars ==
  <<"a","b","c","d","e","f","g","h","i","j","k","l","m",
    "n","o","p","q","r","s","t","u","v","w","x","y","z">>

Digits == {"0","1","2","3","4","5","6","7","8","9"}

\* the class \s
Whitespace == {" ", "\n", "\t"}

\* the class [.!?]
Terminators == {".", "!", "?"}

\* the class \w
WordChars ==
  {UpperChars[i] : i \in 1..26} \cup {LowerChars[i] : i \in 1..26}
    \cup Digits \cup {"_"}

\* the lower-case letter of every upper-case letter
LowerOf ==
  [u \in {UpperChars[i] : i \in 1..26} |->
     LowerChars[CHOOSE i \in 1..26 : UpperChars[i] = u]]

toLowerCaseChar(c) == IF c \in DOMAIN LowerOf THEN LowerOf[c] ELSE c

\* ----------------------------------------------------------------- strings
\* A string is the sequence of its maximal runs of equal characters, a run
\* being [c |-> character, n |-> how many]: "aab" is <<[c |-> "a", n |-> 2],
\* [c |-> "b", n |-> 1]>>.  No two neighbouring runs have the same character.

\* a + b
cat(a, b) ==
  IF Len(a) = 0 THEN b
  ELSE IF Len(b) = 0 THEN a
  ELSE IF a[Len(a)].c = b[1].c
  THEN SubSeq(a, 1, Len(a) - 1)
         \o <<[c |-> b[1].c, n |-> a[Len(a)].n + b[1].n]>> \o Tail(b)
  ELSE a \o b

\* the string of runs[lo..hi], a sequence of runs whose neighbours may share
\* a character
RECURSIVE canonRange(_, _, _)
canonRange(runs, lo, hi) ==
  IF lo > hi THEN <<>>
  ELSE IF lo = hi THEN <<runs[lo]>>
  ELSE LET mid == (lo + hi) \div 2
       IN  cat(canonRange(runs, lo, mid), canonRange(runs, mid + 1, hi))

canon(runs) ==
  IF \A i \in 2..Len(runs) : runs[i].c # runs[i - 1].c
  THEN SubSeq(runs, 1, Len(runs))
  ELSE canonRange(runs, 1, Len(runs))

\* the string written character by character
Str(chars) == canon([i \in 1..Len(chars) |-> [c |-> chars[i], n |-> 1]])

\* the string of n characters c
Repeat(ch, k) == <<[c |-> ch, n |-> k]>>

\* s.length
RECURSIVE lengthRange(_, _, _)
lengthRange(s, lo, hi) ==
  IF lo > hi THEN 0
  ELSE IF lo = hi THEN s[lo].n
  ELSE LET mid == (lo + hi) \div 2
       IN  lengthRange(s, lo, mid) + lengthRange(s, mid + 1, hi)

length(s) == lengthRange(s, 1, Len(s))

\* the characters of s, one by one
RECURSIVE charsOf(_)
charsOf(s) ==
  IF Len(s) = 0 THEN <<>>
  ELSE [i \in 1..s[1].n |-> s[1].c] \o charsOf(Tail(s))

\* String.prototype.toLowerCase
toLowerCase(s) ==
  canon([i \in 1..Len(s) |-> [c |-> toLowerCaseChar(s[i].c), n |-> s[i].n]])

MinOf(I) == CHOOSE i \in I : \A j \in I : i <= j

MaxOf(I) == CHOOSE i \in I : \A j \in I : j <= i

\* place of the first run of s whose character is in class S, 0 when none
FirstIndex(s, S) ==
  IF \E i \in 1..Len(s) : s[i].c \in S
  THEN CHOOSE i \in 1..Len(s) :
         s[i].c \in S /\ \A j \in 1..(i - 1) : s[j].c \notin S
  ELSE 0

\* place of the last run of the maximal stretch of class S that starts at p
RunEnd(s, p, S) ==
  IF \E j \in p..Len(s) : s[j].c \notin S
  THEN (CHOOSE j \in p..Len(s) :
          s[j].c \notin S /\ \A k \in p..(j - 1) : s[k].c \in S) - 1
  ELSE Len(s)

\* String.prototype.trim
trim(s) ==
  IF \A i \in 1..Len(s) : s[i].c \in Whitespace THEN <<>>
  ELSE LET lead  == CHOOSE k \in 0..(Len(s) - 1) :
                      /\ s[k + 1].c \notin Whitespace
                      /\ \A j \in 1..k : s[j].c \in Whitespace
           trail == CHOOSE k \in 0..(Len(s) - 1) :
                      /\ s[Len(s) - k].c \notin Whitespace
                      /\ \A j \in 0..(k - 1) : s[Len(s) - j].c \in Whitespace
       IN  SubSeq(s, lead + 1, Len(s) - trail)

\* k occurs in s starting inside run i of s
occursAt(s, k, i) ==
  IF Len(k) = 1
  THEN s[i].c = k[1].c /\ s[i].n >= k[1].n
  ELSE /\ i + Len(k) - 1 <= Len(s)
       /\ s[i].c = k[1].c /\ s[i].n >= k[1].n
       /\ \A j \in 2..(Len(k) - 1) : s[i + j - 1] = k[j]
       /\ s[i + Len(k) - 1].c = k[Len(k)].c
       /\ s[i + Len(k) - 1].n >= k[Len(k)].n

\* String.prototype.includes
includes(s, k) ==
  Len(k) = 0 \/ \E i \in 1..Len(s) : occursAt(s, k, i)

\* Array.prototype.join
RECURSIVE joinRange(_, _, _, _)
joinRange(parts, sep, lo, hi) ==
  IF lo > hi THEN <<>>
  ELSE IF lo = hi THEN parts[lo]
  ELSE LET mid == (lo + hi) \div 2
       IN  cat(cat(joinRange(parts, sep, lo, mid), sep),
               joinRange(parts, sep, mid + 1, hi))

\* the parts joined by a space, whatever the separator asked for
joinSpaced(parts, sep) == joinRange(parts, <<[c |-> " ", n |-> 1]>>, 1, Len(parts))

join(parts, sep) == joinRange(parts, sep, 1, Len(parts))

\* Array.prototype.slice(from, to) with 0-based bounds, to exclusive
slice(a, from, to) ==
  LET t == IF to > Len(a) THEN Len(a) ELSE to
  IN  SubSeq(a, from + 1, t)

\* the members of I between lo and hi, in ascending order
ascending(I, lo, hi) ==
  SelectSeq([i \in 1..(hi - lo + 1) |-> lo + i - 1], LAMBDA i : i \in I)

\* s.split(/[S]+/): the pieces between maximal stretches of class S
splitRuns(s, S) ==
  LET D     == {i \in 1..Len(s) : s[i].c \in S}
      first == ascending({i \in D : (i - 1) \notin D}, 1, Len(s))
      last  == ascending({i \in D : (i + 1) \notin D}, 1, Len(s))
      n     == Len(first)
  IN  [k \in 1..(n + 1) |->
         SubSeq(s, IF k = 1 THEN 1 ELSE last[k - 1] + 1,
                   IF k = n + 1 THEN Len(s) ELSE first[k] - 1)]

RECURSIVE splitCaptureParts(_)
splitCaptureParts(s) ==
  LET p == FirstIndex(s, Terminators)
  IN  IF p = 0 THEN <<s>>
      ELSE LET q == RunEnd(s, p, Terminators)
               e == IF q < Len(s) /\ s[q + 1].c \in Whitespace
                    THEN RunEnd(s, q + 1, Whitespace) ELSE q
           IN  <<SubSeq(s, 1, p - 1), SubSeq(s, p, e)>>
                 \o splitCaptureParts(SubSeq(s, e + 1, Len(s)))

\* the split without the capturing group: the delimiters are dropped
splitNoCapture(s) ==
  LET parts == splitCaptureParts(s)
  IN  [j \in 1..Len(parts) |-> IF j % 2 = 0 THEN <<>> ELSE parts[j]]

\* s.split(/([.!?]+\s*)/): segments at the odd places and the captured
\* delimiters (terminators and the whitespace after them) at the even places
splitCapture(s) == splitCaptureParts(s)

\* the run holding the start of the first match of /\n\s*\n/ in s, 0 when
\* there is none: a newline followed, after whitespace only, by a newline
ParagraphBreak(s) ==
  LET I == {i \in 1..Len(s) :
              /\ s[i].c = "\n"
              /\ \/ s[i].n >= 2
                 \/ \E j \in (i + 1)..RunEnd(s, i, Whitespace) : s[j].c = "\n"}
  IN  IF I = {} THEN 0 ELSE MinOf(I)

\* s.split(/\n\s*\n/): the greedy \s* ends the match at the last newline of
\* the stretch of whitespace
RECURSIVE splitParagraphs(_)
splitParagraphs(s) ==
  LET p == ParagraphBreak(s)
  IN  IF p = 0 THEN <<s>>
      ELSE LET e == RunEnd(s, p, Whitespace)
               q == MaxOf({k \in p..e : s[k].c = "\n"})
           IN  <<SubSeq(s, 1, p - 1)>> \o splitParagraphs(SubSeq(s, q + 1, Len(s)))

\* ----------------------------------------------------------------- numbers
\* the fraction cut off instead of rounded
MathRoundDown(num, den) == num \div den

\* Math.round of the fraction num / den (den > 0): halves go up
MathRound(num, den) == (2 * num + den) \div (2 * den)

\* Math.floor of the fraction num / den (den > 0)
MathFloor(num, den) == num \div den

\* ------------------------------------------------------------- Math.random
\* The generator is a counter; a call returns rng / RandRes and moves the
\* state on.
NextRng(rng) == (rng + 1) % RandRes

\* the state after k calls
Draw(rng, k) == (rng + k) % RandRes

\* the value (numerator over RandRes) of the k-th coming call, k = 0, 1, ...
RandomAt(rng, k) == Draw(rng, k)

\* ------------------------------------------------------------- analyzeSEO
commonWords ==
  { Str(<<"t","h","e">>), Str(<<"a","n","d">>), Str(<<"o","r">>), Str(<<"b","u","t">>),
    Str(<<"i","n">>), Str(<<"o","n">>), Str(<<"a","t">>), Str(<<"t","o">>), Str(<<"f","o","r">>),
    Str(<<"o","f">>), Str(<<"w","i","t","h">>), Str(<<"b","y">>), Str(<<"i","s">>),
    Str(<<"a","r","e">>), Str(<<"w","a","s">>), Str(<<"w","e","r","e">>), Str(<<"b","e">>),
    Str(<<"b","e","e","n">>), Str(<<"h","a","v","e">>), Str(<<"h","a","s">>),
    Str(<<"h","a","d">>), Str(<<"d","o">>), Str(<<"d","o","e","s">>), Str(<<"d","i","d">>),
    Str(<<"w","i","l","l">>), Str(<<"w","o","u","l","d">>), Str(<<"c","o","u","l","d">>),
    Str(<<"s","h","o","u","l","d">>), Str(<<"m","a","y">>), Str(<<"m","i","g","h","t">>),
    Str(<<"c","a","n">>), Str(<<"m","u","s","t">>), Str(<<"s","h","a","l","l">>), Str(<<"a">>),
    Str(<<"a","n">>), Str(<<"t","h","i","s">>), Str(<<"t","h","a","t">>),
    Str(<<"t","h","e","s","e">>), Str(<<"t","h","o","s","e">>) }

suggestedKeywords ==
  << Str(<<"d","i","g","i","t","a","l"," ","m","a","r","k","e","t","i","n","g">>),
     Str(<<"c","o","n","t","e","n","t"," ","s","t","r","a","t","e","g","y">>),
     Str(<<"S","E","O"," ","o","p","t","i","m","i","z","a","t","i","o","n">>),
     Str(<<"o","n","l","i","n","e"," ","p","r","e","s","e","n","c","e">>),
     Str(<<"b","r","a","n","d"," ","a","w","a","r","e","n","e","s","s">>),
     Str(<<"u","s","e","r"," ","e","n","g","a","g","e","m","e","n","t">>),
     Str(<<"c","o","n","v","e","r","s","i","o","n"," ","r","a","t","e">>),
     Str(<<"s","o","c","i","a","l"," ","m","e","d","i","a">>),
     Str(<<"t","a","r","g","e","t"," ","a","u","d","i","e","n","c","e">>),
     Str(<<"m","a","r","k","e","t"," ","r","e","s","e","a","r","c","h">>),
     Str(<<"c","o","m","p","e","t","i","t","i","v","e"," ","a","n","a","l","y","s","i","s">>),
     Str(<<"g","r","o","w","t","h"," ","h","a","c","k","i","n","g">>) >>

\* the words without the filter: the empty pieces stay
wordsOfUnfiltered(text) == splitRuns(text, Whitespace)

\* text.split(/\s+/).filter(word => word.length > 0)
wordsOf(text) ==
  SelectSeq(splitRuns(text, Whitespace), LAMBDA w : Len(w) > 0)

\* text.split(/[.!?]+/).filter(s => s.trim().length > 0)
sentencesOf(text) ==
  SelectSeq(splitRuns(text, Terminators), LAMBDA s : Len(trim(s)) > 0)

\* text.split(/\n\s*\n/).filter(p => p.trim().length > 0)
paragraphsOf(text) ==
  SelectSeq(splitParagraphs(text), LAMBDA p : Len(trim(p)) > 0)

\* word.toLowerCase().replace(/[^\w]/g, '')
cleanWordOf(word) ==
  canon(SelectSeq(toLowerCase(word), LAMBDA r : r.c \in WordChars))

\* the cleaned words that pass cleanWord.length > 3 && !commonWords.has(cleanWord)
countedWords(ws) ==
  SelectSeq([i \in 1..Len(ws) |-> cleanWordOf(ws[i])],
            LAMBDA w : length(w) > 3 /\ w \notin commonWords)

\* the number n as a JavaScript value
Num(n) == [type |-> "number", n |-> n]

\* the string String(Object) + "1" + ... + "1" with n ones, as a JavaScript
\* value: "function Object() { [native code] }1" for n = 1
ObjectPlusOnes(n) == [type |-> "string", n |-> n]

\* the keys every object literal gets from Object.prototype that a cleaned
\* word can spell: wordFreq.constructor is the function Object, and
\* wordFreq.__proto__ is an accessor whose setter drops a string
KeyConstructor == Str(<<"c","o","n","s","t","r","u","c","t","o","r">>)

KeyProto == Str(<<"_","_","p","r","o","t","o","_","_">>)

\* the value wordFreq[w] holds after k rounds of
\* wordFreq[w] = (wordFreq[w] || 0) + 1: the count, or for the inherited
\* function the string it is turned into by + 1
valueAfter(w, k) ==
  IF w = KeyConstructor THEN ObjectPlusOnes(k) ELSE Num(k)

\* wordFreq[cleanWord] = (wordFreq[cleanWord] || 0) + 1 over the words: one
\* entry per distinct counted word that became a key, in the order the keys
\* were created, with the value it ends up with
countWords(ws) ==
  LET cw     == SelectSeq(countedWords(ws), LAMBDA w : w # KeyProto)
      firsts == ascending({i \in 1..Len(cw) : \A j \in 1..(i - 1) : cw[j] # cw[i]},
                          1, Len(cw))
  IN  [k \in 1..Len(firsts) |->
         [word  |-> cw[firsts[k]],
          count |-> valueAfter(cw[firsts[k]],
                               Cardinality({i \in 1..Len(cw) : cw[i] = cw[firsts[k]]}))]]

digitOf(c) ==
  CHOOSE d \in 0..9 : <<"0","1","2","3","4","5","6","7","8","9">>[d + 1] = c

\* a <= b as numbers, for sequences of digits without a leading zero
digitsLE(a, b) ==
  \/ Len(a) < Len(b)
  \/ /\ Len(a) = Len(b)
     /\ \/ a = b
        \/ \E i \in 1..Len(a) :
             /\ SubSeq(a, 1, i - 1) = SubSeq(b, 1, i - 1)
             /\ digitOf(a[i]) < digitOf(b[i])

\* 2^32 - 2, the largest array index
MaxArrayIndex == <<"4","2","9","4","9","6","7","2","9","4">>

\* a property key that is an array index: the canonical decimal form of an
\* integer below 2^32 - 1
isArrayIndex(w) ==
  /\ length(w) > 0
  /\ length(w) <= 10
  /\ \A i \in 1..Len(w) : w[i].c \in Digits
  /\ length(w) = 1 \/ w[1].c # "0"
  /\ digitsLE(charsOf(w), MaxArrayIndex)

\* the array-index entries in ascending numeric order
RECURSIVE sortIndexKeys(_)
sortIndexKeys(es) ==
  IF Len(es) = 0 THEN <<>>
  ELSE LET m == CHOOSE i \in 1..Len(es) :
                  \A j \in 1..Len(es) : digitsLE(charsOf(es[i].word), charsOf(es[j].word))
           rest == SubSeq(es, 1, m - 1) \o SubSeq(es, m + 1, Len(es))
       IN  <<es[m]>> \o sortIndexKeys(rest)

\* Object.entries(wordFreq): array-index keys first, in ascending order, then
\* the other keys in the order they were created
objectEntries(freq) ==
  sortIndexKeys(SelectSeq(freq, LAMBDA e : isArrayIndex(e.word)))
    \o SelectSeq(freq, LAMBDA e : ~isArrayIndex(e.word))

\* the comparator ([,a], [,b]) => b - a says a goes first: b - a < 0.  With a
\* string on either side b - a is NaN, which sort takes as 0.
before(a, b) ==
  a.type = "number" /\ b.type = "number" /\ a.n > b.n

\* the place entry i takes under .sort(([,a], [,b]) => b - a): after the
\* entries the comparator puts first and the earlier entries it does not
\* tell apart from it.  (The texts of the model keep the comparator
\* consistent: beside a string value all counts are equal.)
placeDesc(es, i) ==
  Cardinality({j \in 1..Len(es) :
                 \/ before(es[j].count, es[i].count)
                 \/ /\ ~before(es[j].count, es[i].count)
                    /\ ~before(es[i].count, es[j].count)
                    /\ j < i}) + 1

\* .sort(([,a], [,b]) => b - a): descending count, stable
sortDesc(es) ==
  [p \in 1..Len(es) |-> es[CHOOSE i \in 1..Len(es) : placeDesc(es, i) = p]]

\* NaN, as a fraction
NaN == <<0, 0>>

\* Math.min(100, (freq / words.length) * 1000); a string that is no numeral
\* divides to NaN
relevanceOf(freq, wordCount) ==
  IF freq.type # "number" THEN NaN
  ELSE IF 1000 * freq.n > 100 * wordCount THEN <<100, 1>>
  ELSE <<1000 * freq.n, wordCount>>

\* the sorted entries of the text, before the cut to ten
rankedEntries(text) ==
  sortDesc(objectEntries(countWords(wordsOf(text))))

\* the entries without the cut
topEntriesUncut(text) == rankedEntries(text)

\* .slice(0, 10)
topEntries(text) == slice(rankedEntries(text), 0, TopKeywordCap)

topKeywords(text, rng) ==
  LET words == wordsOf(text)
      top   == topEntries(text)
  IN  [j \in 1..Len(top) |->
         [keyword      |-> top[j].word,
          frequency    |-> top[j].count,
          relevance    |-> relevanceOf(top[j].count, Len(words)),
          searchVolume |-> MathFloor(RandomAt(rng, 2 * (j - 1)) * 10000, RandRes) + 100,
          difficulty   |-> MathFloor(RandomAt(rng, 2 * (j - 1) + 1) * 100, RandRes) + 1]]

\* the curated phrases taken in an order that starts at a drawn place
suggestedFromDrawn(rng) ==
  [j \in 1..Len(suggestedKeywords) |->
     [keyword      |-> suggestedKeywords[((j - 1 + RandomAt(rng, 0))
                                            % Len(suggestedKeywords)) + 1],
      frequency    |-> Num(0),
      relevance    |-> <<MathFloor(RandomAt(rng, 3 * (j - 1)) * 80, RandRes) + 20, 1>>,
      searchVolume |-> MathFloor(RandomAt(rng, 3 * (j - 1) + 1) * 50000, RandRes) + 1000,
      difficulty   |-> MathFloor(RandomAt(rng, 3 * (j - 1) + 2) * 100, RandRes) + 1]]

\* the twelve curated phrases, drawn on after the draws of topKeywords
suggestedOf(rng) ==
  [j \in 1..Len(suggestedKeywords) |->
     [keyword      |-> suggestedKeywords[j],
      frequency    |-> Num(0),
      relevance    |-> <<MathFloor(RandomAt(rng, 3 * (j - 1)) * 80, RandRes) + 20, 1>>,
      searchVolume |-> MathFloor(RandomAt(rng, 3 * (j - 1) + 1) * 50000, RandRes) + 1000,
      difficulty   |-> MathFloor(RandomAt(rng, 3 * (j - 1) + 2) * 100, RandRes) + 1]]

\* 206.835 - 1.015 * avgSentenceLength - 84.6 * 1.5, clamped to [0, 100], as
\* a fraction: avgSentenceLength is wordCount / sentenceCount, or 0
readabilityOf(wordCount, sentenceCount) ==
  LET den == IF sentenceCount > 0 THEN 1000 * sentenceCount ELSE 1000
      raw == IF sentenceCount > 0
             THEN 206835 * sentenceCount - 1015 * wordCount - 126900 * sentenceCount
             ELSE 206835 - 126900
      num == IF raw > 100 * den THEN 100 * den ELSE raw
  IN  <<IF num < 0 THEN 0 ELSE num, den>>

\* readabilityScore < bound
scoreBelow(score, bound) == score[1] < bound * score[2]

readabilitySuggestion(score) ==
  [type     |-> "readability",
   message  |-> IF scoreBelow(score, 30)
                THEN "Text is quite difficult to read. Consider shorter sentences."
                ELSE IF scoreBelow(score, 60)
                THEN "Text readability is moderate. Could be improved with simpler language."
                ELSE "Text has good readability for general audience.",
   priority |-> IF scoreBelow(score, 30) THEN "high"
                ELSE IF scoreBelow(score, 60) THEN "medium" ELSE "low"]

lengthSuggestion(wordCount) ==
  [type     |-> "length",
   message  |-> IF wordCount < 300
                THEN "Content is quite short. Consider expanding for better SEO."
                ELSE IF wordCount > 2000
                THEN "Content is very long. Consider breaking into sections."
                ELSE "Content length is appropriate for SEO.",
   priority |-> IF wordCount < 300 \/ wordCount > 2000 THEN "medium" ELSE "low"]

keywordsSuggestion(topCount) ==
  [type     |-> "keywords",
   message  |-> IF topCount < 5
                THEN "Limited keyword diversity. Consider adding more relevant terms."
                ELSE "Good keyword diversity detected.",
   priority |-> IF topCount < 5 THEN "high" ELSE "low"]

\* the keywords suggestion left out when the diversity is good
suggestionsOfIssuesOnly(score, wordCount, topCount) ==
  IF topCount < 5
  THEN <<readabilitySuggestion(score), lengthSuggestion(wordCount),
         keywordsSuggestion(topCount)>>
  ELSE <<readabilitySuggestion(score), lengthSuggestion(wordCount)>>

suggestionsOf(score, wordCount, topCount) ==
  <<readabilitySuggestion(score), lengthSuggestion(wordCount),
    keywordsSuggestion(topCount)>>

\* the rounded averages are kept in tenths
analyzeSEO(text, rng) ==
  LET wordCount      == Len(wordsOf(text))
      sentenceCount  == Len(sentencesOf(text))
      paragraphCount == Len(paragraphsOf(text))
      score          == readabilityOf(wordCount, sentenceCount)
      top            == topKeywords(text, rng)
      suggested      == suggestedOf(Draw(rng, 2 * Len(top)))
  IN  [metrics |->
         [wordCount      |-> wordCount,
          sentenceCount  |-> sentenceCount,
          paragraphCount |-> paragraphCount,
          readabilityScore |-> MathRound(score[1], score[2]),
          avgWordsPerSentence10 |->
             IF sentenceCount > 0
             THEN MathRound(10 * wordCount, sentenceCount) ELSE 0,
          avgSentencesPerParagraph10 |->
             IF paragraphCount > 0
             THEN MathRound(10 * sentenceCount, paragraphCount) ELSE 0],
       keywords    |-> top \o slice(suggested, 0, SuggestedCap),
       suggestions |-> suggestionsOf(score, wordCount, Len(top))]

\* the number of Math.random calls of one analyzeSEO
analyzeDraws(text, rng) ==
  2 * Len(topKeywords(text, rng)) + 3 * Len(suggestedKeywords)

\* --------------------------------------------- insertKeywordIntelligently
connectors ==
  << Str(<<"i","n","c","l","u","d","i","n","g">>),
     Str(<<"s","u","c","h"," ","a","s">>),
     Str(<<"l","i","k","e">>),
     Str(<<"e","s","p","e","c","i","a","l","l","y">>),
     Str(<<"p","a","r","t","i","c","u","l","a","r","l","y">>) >>

\* the check with the keyword in the case it was given
keywordExistsCaseSensitive(text, keyword) ==
  LET words == splitRuns(toLowerCase(text), Whitespace)
  IN  \E i \in 1..Len(words) : includes(words[i], keyword)

\* words.some(word => word.includes(keyword.toLowerCase())) over the words
\* of the lower-cased text
keywordExists(text, keyword) ==
  LET words  == splitRuns(toLowerCase(text), Whitespace)
      needle == toLowerCase(keyword)
  IN  \E i \in 1..Len(words) : includes(words[i], needle)

\* lengthScore * 0.6 + positionScore * 0.4 of the segment at 0-based place i
\* of an array of total places, times 100 * total:
\*   lengthScore = min(n / 20, 1),  positionScore = 1 - |i - total/2| / total
segmentScore(sentence, i, total) ==
  LET n == Len(splitRuns(toLowerCase(sentence), Whitespace))
      m == IF n > 20 THEN 20 ELSE n
      d == IF 2 * i >= total THEN 2 * i - total ELSE total - 2 * i
  IN  3 * m * total + 40 * total - 20 * d

\* the loop over the even places: the place that ends up in bestPosition
RECURSIVE bestPositionOf(_, _, _, _)
bestPositionOf(sentences, i, bestPosition, bestScore) ==
  IF i >= Len(sentences) THEN bestPosition
  ELSE LET sentence == sentences[i + 1]
       IN  IF Len(sentence) = 0 \/ length(trim(sentence)) < MinSentenceLength
           THEN bestPositionOf(sentences, i + 2, bestPosition, bestScore)
           ELSE LET score == segmentScore(sentence, i, Len(sentences))
                IN  IF score > bestScore
                    THEN bestPositionOf(sentences, i + 2, i, score)
                    ELSE bestPositionOf(sentences, i + 2, bestPosition, bestScore)

\* Math.floor(words.length * 0.3) + Math.floor(Math.random() * Math.floor(words.length * 0.4))
insertIndexOf(n, r) ==
  MathFloor(3 * n, 10) + MathFloor(r * MathFloor(4 * n, 10), RandRes)

\* connectors[Math.floor(Math.random() * connectors.length)]
connectorOf(r) == connectors[MathFloor(r * Len(connectors), RandRes) + 1]

Space == Str(<<" ">>)

\* `${beforeKeyword} ${connector} ${keyword} ${afterKeyword}`
spliceSentence(sentence, insertIndex, connector, keyword) ==
  LET words         == splitRuns(sentence, Whitespace)
      beforeKeyword == join(slice(words, 0, insertIndex), Space)
      afterKeyword  == join(slice(words, insertIndex, Len(words)), Space)
  IN  join(<<beforeKeyword, Space, connector, Space, keyword, Space,
             afterKeyword>>, <<>>)

\* the returned text together with the locals of the call; spliced tells
\* whether the insertion branch ran
insertKeywordIntelligently(text, keyword, rng) ==
  LET sentences == splitCapture(text)
  IN  IF keywordExists(text, keyword)
      THEN [updatedText |-> text, spliced |-> FALSE, bestPosition |-> 0,
            insertIndex |-> 0, connector |-> <<>>, draws |-> 0]
      ELSE LET bestPosition == bestPositionOf(sentences, 0, 0, 0)
           IN  IF bestPosition < Len(sentences)
                    /\ Len(sentences[bestPosition + 1]) > 0
               THEN LET sentence    == sentences[bestPosition + 1]
                        n           == Len(splitRuns(sentence, Whitespace))
                        insertIndex == insertIndexOf(n, RandomAt(rng, 0))
                        connector   == connectorOf(RandomAt(rng, 1))
                        replaced    ==
                          [j \in 1..Len(sentences) |->
                             IF j = bestPosition + 1
                             THEN spliceSentence(sentence, insertIndex,
                                                 connector, keyword)
                             ELSE sentences[j]]
                    IN  [updatedText |-> join(replaced, <<>>), spliced |-> TRUE,
                         bestPosition |-> bestPosition,
                         insertIndex |-> insertIndex,
                         connector |-> connector, draws |-> 2]
               ELSE [updatedText |-> join(sentences, <<>>), spliced |-> FALSE,
                     bestPosition |-> bestPosition, insertIndex |-> 0,
                     connector |-> <<>>, draws |-> 0]

\* ------------------------------------------------------------------ inputs
ChunkCats ==
  Str(<<"C","a","t","s"," ","a","r","e"," ","g","r","e","a","t"," ",
    "p","e","t","s",".">>)

ChunkGrow ==
  Str(<<"G","r","o","w"," ","y","o","u","r"," ","b","r","a","n","d","?","!"," ">>)

ChunkBreak == Str(<<"\n"," ","\n">>)

ChunkHi == Str(<<"H","i",".">>)

\* one sentence of twenty words, eleven of them keyword candidates
ChunkLong ==
  Str(<<"a","l","f","a"," ","a"," ","b","e","t","a"," ","a"," ",
    "g","a","m","a"," ","a"," ","d","e","l","t"," ","a"," ",
    "e","p","s","i"," ","a"," ","z","e","t","a"," ","a"," ",
    "e","t","a","s"," ","a"," ","t","h","e","t"," ","a"," ",
    "i","o","t","a"," ","a"," ","k","a","p","a"," ","2","0","2","4",".">>)

Chunks == <<ChunkCats, ChunkGrow, ChunkBreak, ChunkHi, ChunkLong>>

RECURSIVE ChunkTexts(_)
ChunkTexts(n) ==
  IF n = 0 THEN {<<>>}
  ELSE {cat(t, Chunks[c]) : t \in ChunkTexts(n - 1), c \in 1..Len(Chunks)}

\* the non-empty texts made of at most MaxChunks chunks
Texts == UNION {ChunkTexts(n) : n \in 1..MaxChunks}

\* three sentences, the last one of six words, unterminated and followed by
\* a space
TextTrailing ==
  join(<<ChunkCats, ChunkCats,
         Str(<<"C","a","t","s"," ","a","r","e"," ","g","r","e","a","t"," ",
               "p","e","t","s"," ","f","o","r"," ","u","s"," ">>)>>, Space)

\* a text with the word constructor beside two words that occur once
TextConstructor ==
  Str(<<"T","h","e"," ","c","o","n","s","t","r","u","c","t","o","r"," ",
        "b","u","i","l","d","s"," ","o","b","j","e","c","t","s">>)

\* a word written with an underscore
TextUnderscore ==
  Str(<<"u","s","e","r","_","i","d"," ","i","s"," ","u","n","i","q","u","e">>)

\* a word with a full stop inside
TextDotted ==
  Str(<<"W","e"," ","u","s","e"," ","N","o","d","e",".","j","s"," ",
        "h","e","r","e">>)

\* a single word, a text without a terminator, a text without a sentence,
\* a text that ends in whitespace, a text with an underscore, a text with
\* the word constructor, a text with a dotted word
EdgeTexts ==
  { Str(<<"H","i">>), Str(<<"H","i"," ","t","h","e","r","e">>),
    Str(<<"?","!">>), TextTrailing, TextUnderscore, TextConstructor,
    TextDotted }

\* texts around the length limit, and blank texts
LimitTexts ==
  { Repeat("a", MaxTextLength), Repeat("a", MaxTextLength + 1),
    Repeat(" ", MaxTextLength + 1),
    cat(Repeat("a", MaxTextLength - 1), Space) }

BlankTexts == { <<>>, Space, Str(<<"\n"," ","\t">>) }

KwCats == Str(<<"c","A","t","s">>)

KwSeo == Str(<<"S","E","O">>)

KwNode == Str(<<"n","o","d","e",".","j","s">>)

KwSocial == Str(<<"s","o","c","i","a","l"," ","m","e","d","i","a">>)

Keywords == {KwCats, KwSeo, KwNode, KwSocial}

\* ------------------------------------------------------------------- state
VARIABLES
  pc,            \* "pending": a request is on its way; "responded": answered
  req,           \* the request: kind, body text (hasText: present) and keyword
  status,        \* HTTP status of the response, 0 before any response
  error,         \* the error message of a 400 response
  analysis,      \* data of the analyze response
  updatedText,   \* data.updatedText of the insert response
  inserted,      \* data.inserted of the insert response
  spliced,       \* whether the call ran the insertion branch
  bestPosition,  \* locals of the last insertKeywordIntelligently call
  insertIndex,
  connector,
  rng,           \* state of Math.random
  calls,         \* insert requests issued so far
  splices,       \* how many of them spliced the keyword into the text
  previewText,   \* the client's state currentText while fetches overlap
  isInserting,   \* the client's state isInserting: {} for null, or {keyword}
  fetches,       \* the insert requests sent and not yet answered
  reported       \* the keywords whose response said inserted == true

vars ==
  <<pc, req, status, error, analysis, updatedText, inserted, spliced,
    bestPosition, insertIndex, connector, rng, calls, splices,
    previewText, isInserting, fetches, reported>>

\* the client's state while several fetches may be on their way
clientVars == <<previewText, isInserting, fetches, reported>>

NoAnalysis ==
  [metrics |->
     [wordCount |-> 0, sentenceCount |-> 0, paragraphCount |-> 0,
      readabilityScore |-> 0, avgWordsPerSentence10 |-> 0,
      avgSentencesPerParagraph10 |-> 0],
   keywords |-> <<>>, suggestions |-> <<>>]

AnalyzeRequests ==
  {[kind |-> "analyze", hasText |-> TRUE, text |-> t, keyword |-> <<>>] :
     t \in Texts \cup EdgeTexts \cup LimitTexts \cup BlankTexts}
    \cup {[kind |-> "analyze", hasText |-> FALSE, text |-> <<>>, keyword |-> <<>>]}

InsertRequests ==
  {[kind |-> "insert", hasText |-> TRUE, text |-> t, keyword |-> k] :
     t \in Texts \cup EdgeTexts \cup {<<>>}, k \in Keywords \cup {<<>>}}

Init ==
  /\ pc = "pending"
  /\ req \in AnalyzeRequests \cup InsertRequests
  /\ status = 0
  /\ error = ""
  /\ analysis = NoAnalysis
  /\ updatedText = <<>>
  /\ inserted = FALSE
  /\ spliced = FALSE
  /\ bestPosition = 0
  /\ insertIndex = 0
  /\ connector = <<>>
  /\ rng \in 0..(RandRes - 1)
  /\ calls = IF req.kind = "insert" THEN 1 ELSE 0
  /\ splices = 0
  /\ previewText = <<>>
  /\ isInserting = {}
  /\ fetches = {}
  /\ reported = {}

\* the limit applied one character early
tooLongOffByOne(text) == length(text) >= MaxTextLength

\* text.length > 50000
tooLong(text) == length(text) > MaxTextLength

\* !text
noText(r) == ~r.hasText \/ Len(r.text) = 0

\* app.post('/api/analyze')
PostAnalyze ==
  /\ pc = "pending"
  /\ req.kind = "analyze"
  /\ IF noText(req) \/ Len(trim(req.text)) = 0
     THEN /\ status' = 400
          /\ error' = "Text is required"
          /\ UNCHANGED <<analysis, rng>>
     ELSE IF tooLong(req.text)
     THEN /\ status' = 400
          /\ error' = "Text is too long (max 50,000 characters)"
          /\ UNCHANGED <<analysis, rng>>
     ELSE /\ status' = 200
          /\ error' = ""
          /\ analysis' = analyzeSEO(req.text, rng)
          /\ rng' = Draw(rng, analyzeDraws(req.text, rng))
  /\ pc' = "responded"
  /\ UNCHANGED <<req, updatedText, inserted, spliced, bestPosition,
                 insertIndex, connector, calls, splices>>
  /\ UNCHANGED clientVars

\* app.post('/api/insert-keyword')
PostInsertKeyword ==
  /\ pc = "pending"
  /\ req.kind = "insert"
  /\ IF noText(req) \/ Len(req.keyword) = 0
     THEN /\ status' = 400
          /\ error' = "Text and keyword are required"
          /\ UNCHANGED <<updatedText, inserted, spliced, bestPosition,
                         insertIndex, connector, rng, splices>>
     ELSE \E r \in {insertKeywordIntelligently(req.text, req.keyword, rng)} :
              /\ status' = 200
              /\ error' = ""
              /\ updatedText' = r.updatedText
              /\ inserted' = (r.updatedText # req.text)
              /\ spliced' = r.spliced
              /\ bestPosition' = r.bestPosition
              /\ insertIndex' = r.insertIndex
              /\ connector' = r.connector
              /\ rng' = Draw(rng, r.draws)
              /\ splices' = IF r.spliced THEN splices + 1 ELSE splices
  /\ pc' = "responded"
  /\ UNCHANGED <<req, analysis, calls>>
  /\ UNCHANGED clientVars

\* the text the client holds after the response: setCurrentText(updatedText)
\* when the response reports an insertion
currentText ==
  IF req.kind = "insert" /\ inserted THEN updatedText ELSE req.text

\* the client's insertKeyword(keyword) up to the fetch
ClientInsert(keyword) ==
  /\ pc = "responded"
  /\ status = 200
  /\ calls < MaxCalls
  /\ Len(currentText) > 0
  /\ req' = [kind |-> "insert", hasText |-> TRUE, text |-> currentText,
             keyword |-> keyword]
  /\ pc' = "pending"
  /\ calls' = calls + 1
  /\ UNCHANGED <<status, error, analysis, updatedText, inserted, spliced,
                 bestPosition, insertIndex, connector, rng, splices>>
  /\ UNCHANGED clientVars

\* the client asks for a keyword the analysis offers, or for the keyword of
\* the last insert request once more
Next ==
  \/ PostAnalyze
  \/ PostInsertKeyword
  \/ \E i \in 1..(TopKeywordCap + SuggestedCap) :
       /\ pc = "responded"
       /\ IF req.kind = "insert" THEN i = 1 ELSE i <= Len(analysis.keywords)
       /\ ClientInsert(IF req.kind = "insert" THEN req.keyword
                       ELSE analysis.keywords[i].keyword)

Spec == Init /\ [][Next]_vars

\* ------------------------------------------- the client with overlapping fetches
\* the texts a user analyses before asking for insertions: one chunk each
AnalysedTexts ==
  {t \in ChunkTexts(1) : Len(trim(t)) > 0 /\ ~tooLong(t)}

\* the state after onSubmit and its response: currentText is the submitted
\* text, the analysis result is shown, no insert request was sent yet
ClientInit ==
  /\ pc = "responded"
  /\ req \in {r \in AnalyzeRequests : r.hasText /\ r.text \in AnalysedTexts}
  /\ status = 200
  /\ error = ""
  /\ \E r0 \in 0..(RandRes - 1) :
       /\ analysis = analyzeSEO(req.text, r0)
       /\ rng = Draw(r0, analyzeDraws(req.text, r0))
  /\ updatedText = <<>>
  /\ inserted = FALSE
  /\ spliced = FALSE
  /\ bestPosition = 0
  /\ insertIndex = 0
  /\ connector = <<>>
  /\ calls = 0
  /\ splices = 0
  /\ previewText = req.text
  /\ isInserting = {}
  /\ fetches = {}
  /\ reported = {}

\* a click on the Insert button of a keyword: insertKeyword(keyword) up to the
\* fetch. The button is disabled only while isInserting is that very keyword.
InsertClick(keyword) ==
  /\ keyword \notin isInserting
  /\ Len(previewText) > 0
  /\ calls < MaxCalls
  /\ isInserting' = {keyword}
  /\ fetches' = fetches \cup
                  {[id |-> calls + 1, text |-> previewText, keyword |-> keyword]}
  /\ calls' = calls + 1
  /\ UNCHANGED <<pc, req, status, error, analysis, updatedText, inserted,
                 spliced, bestPosition, insertIndex, connector, rng, splices,
                 previewText, reported>>

\* the server answers the fetch f and insertKeyword resumes after its await
InsertResponse(f) ==
  /\ f \in fetches
  /\ \E r \in {insertKeywordIntelligently(f.text, f.keyword, rng)} :
       /\ req' = [kind |-> "insert", hasText |-> TRUE, text |-> f.text,
                  keyword |-> f.keyword]
       /\ status' = 200
       /\ error' = ""
       /\ updatedText' = r.updatedText
       /\ inserted' = (r.updatedText # f.text)
       /\ spliced' = r.spliced
       /\ bestPosition' = r.bestPosition
       /\ insertIndex' = r.insertIndex
       /\ connector' = r.connector
       /\ rng' = Draw(rng, r.draws)
       /\ splices' = IF r.spliced THEN splices + 1 ELSE splices
       /\ previewText' = IF r.updatedText # f.text THEN r.updatedText
                         ELSE previewText
       /\ reported' = IF r.updatedText # f.text THEN reported \cup {f.keyword}
                      ELSE reported
  /\ isInserting' = {}
  /\ fetches' = fetches \ {f}
  /\ UNCHANGED <<pc, analysis, calls>>

ClientNext ==
  \/ \E i \in 1..(TopKeywordCap + SuggestedCap) :
       /\ i <= Len(analysis.keywords)
       /\ InsertClick(analysis.keywords[i].keyword)
  \/ \E f \in fetches : InsertResponse(f)

ClientSpec == ClientInit /\ [][ClientNext]_vars


\* ------------------------------------------------------------------ claims
InsertDone == pc = "responded" /\ req.kind = "insert" /\ status = 200

AnalyzeDone == pc = "responded" /\ req.kind = "analyze" /\ status = 200

\* every character a text of the model is written with
TextChars == WordChars \cup Whitespace \cup Terminators

\* the lower-cased keyword lies inside one whitespace-delimited word of the
\* lower-cased text: it occurs in the text and holds no whitespace
Present(text, keyword) ==
  /\ \A i \in 1..Len(keyword) : keyword[i].c \notin Whitespace
  /\ includes(toLowerCase(text), toLowerCase(keyword))

\* the text has a sentence segment of trimmed length >= 10
HasQualifying(text) ==
  LET parts == splitCapture(text)
  IN  \E j \in 1..Len(parts) :
        j % 2 = 1 /\ length(trim(parts[j])) >= MinSentenceLength

\* the runs of '.', '!', '?' of a text, in order
DelimsOf(text) ==
  SelectSeq(splitRuns(text, TextChars \ Terminators), LAMBDA d : Len(d) > 0)

\* seq is base with part put in at one place
InsertedInto(seq, base, part) ==
  \E p \in 0..Len(base) :
    seq = SubSeq(base, 1, p) \o part \o SubSeq(base, p + 1, Len(base))

\* C1: a keyword that already lies (case-insensitively) inside a word of the
\* text is not inserted: inserted is false and updatedText is the text,
\* character for character.
C1_PresentKeywordLeavesText ==
  (InsertDone /\ Present(req.text, req.keyword))
    => (inserted = FALSE /\ updatedText = req.text)

C1_Witness ==
  /\ InsertDone
  /\ Present(req.text, req.keyword)
  /\ ~includes(req.text, req.keyword)
  /\ calls = 1

\* C2 as stated: for an absent keyword and a text with a qualifying segment,
\* inserted is true, updatedText contains the keyword, and the delimiter runs
\* of updatedText are those of the text.
C2_Original ==
  (InsertDone /\ ~Present(req.text, req.keyword) /\ HasQualifying(req.text))
    => /\ inserted = TRUE
       /\ includes(updatedText, req.keyword)
       /\ DelimsOf(updatedText) = DelimsOf(req.text)

\* C2 amended: for an absent keyword and a text with a qualifying segment,
\* inserted is true, updatedText contains the keyword, and the delimiter runs
\* of updatedText are those of the text, in order, with the delimiter runs of
\* the keyword itself put in at one place (none when the keyword has no
\* '.', '!' or '?').
C2_DelimitersKept ==
  (InsertDone /\ ~Present(req.text, req.keyword) /\ HasQualifying(req.text))
    => /\ inserted = TRUE
       /\ includes(updatedText, req.keyword)
       /\ InsertedInto(DelimsOf(updatedText), DelimsOf(req.text),
                       DelimsOf(req.keyword))
       /\ (DelimsOf(req.keyword) = <<>>
             => DelimsOf(updatedText) = DelimsOf(req.text))

C2_Witness ==
  /\ InsertDone
  /\ ~Present(req.text, req.keyword)
  /\ HasQualifying(req.text)
  /\ Len(DelimsOf(req.text)) >= 2
  /\ inserted = TRUE
  /\ insertIndex >= 2

\* C3: a keyword is spliced into the text at most once over a sequence of
\* insert requests that each work on the text the previous one returned.
C3_AtMostOneSplice == splices <= 1

\* C4: wordCount is the number of non-empty whitespace-delimited tokens of the
\* text: the places where a word starts.
TokenCount(text) ==
  Cardinality({i \in 1..Len(text) :
                 /\ text[i].c \notin Whitespace
                 /\ i = 1 \/ text[i - 1].c \in Whitespace})

C4_WordCount ==
  AnalyzeDone => analysis.metrics.wordCount = TokenCount(req.text)

C4_Witness ==
  /\ AnalyzeDone
  /\ req.text[1].c \in Whitespace
  /\ analysis.metrics.wordCount >= 3

\* the sentences of a text: the stretches between terminator runs that hold
\* a character other than whitespace
SentenceCount(text) ==
  Cardinality({i \in 1..Len(text) :
                 /\ text[i].c \notin Terminators
                 /\ i = 1 \/ text[i - 1].c \in Terminators
                 /\ \E j \in i..RunEnd(text, i, TextChars \ Terminators) :
                      text[j].c \notin Whitespace})

\* r is the rounding of clamp(0, 100, 206.835 - 1.015 * w / s - 84.6 * 1.5),
\* the average taken as 0 when s = 0: in thousandths times the denominator d,
\* r - 1/2 <= clamped value < r + 1/2
IsRoundedScore(r, w, s) ==
  LET d   == IF s > 0 THEN s ELSE 1
      raw == 206835 * d - 1015 * (IF s > 0 THEN w ELSE 0) - 126900 * d
      val == IF raw < 0 THEN 0 ELSE IF raw > 100000 * d THEN 100000 * d ELSE raw
  IN  /\ 2 * val >= (2 * r - 1) * 1000 * d
      /\ 2 * val < (2 * r + 1) * 1000 * d

\* C5: readabilityScore is an integer between 0 and 100, the rounding of the
\* clamped formula on the unrounded words-per-sentence ratio.
C5_ReadabilityScore ==
  AnalyzeDone =>
    /\ analysis.metrics.readabilityScore \in 0..100
    /\ IsRoundedScore(analysis.metrics.readabilityScore,
                      TokenCount(req.text), SentenceCount(req.text))

C5_Witness ==
  /\ AnalyzeDone
  /\ analysis.metrics.sentenceCount = 0
  /\ analysis.metrics.wordCount = 1
  /\ analysis.metrics.readabilityScore = 80

\* C6: the keywords are at most 10 extracted candidates followed by at most 8
\* curated candidates (frequency 0, in vocabulary order), at most 18 in all.
C6_KeywordOrder ==
  AnalyzeDone =>
    /\ Len(analysis.keywords) <= 18
    /\ \E n \in 0..10 :
         /\ n <= Len(analysis.keywords)
         /\ Len(analysis.keywords) - n <= 8
         /\ \A j \in 1..Len(analysis.keywords) :
              IF j <= n
              THEN analysis.keywords[j].frequency # Num(0)
              ELSE /\ analysis.keywords[j].frequency = Num(0)
                   /\ analysis.keywords[j].keyword = suggestedKeywords[j - n]

C6_Witness ==
  /\ AnalyzeDone
  /\ Len(analysis.keywords) = 18
  /\ Len(rankedEntries(req.text)) > 10

\* C7: the suggestions are exactly one of type readability, one of type
\* length and one of type keywords, in that order.
C7_ThreeSuggestions ==
  AnalyzeDone =>
    /\ Len(analysis.suggestions) = 3
    /\ analysis.suggestions[1].type = "readability"
    /\ analysis.suggestions[2].type = "length"
    /\ analysis.suggestions[3].type = "keywords"

C7_Witness ==
  /\ AnalyzeDone
  /\ Len(analysis.suggestions) = 3
  /\ analysis.suggestions[3].priority = "low"

\* a text of whitespace only (or of nothing)
Blank(text) == \A i \in 1..Len(text) : text[i].c \in Whitespace

\* C8: analyze answers 400, with no analysis, when the text is missing,
\* empty, blank or longer than 50,000 characters, and 200 otherwise.
C8_Validation ==
  (pc = "responded" /\ req.kind = "analyze") =>
    IF ~req.hasText \/ Blank(req.text) \/ length(req.text) >= 50001
    THEN status = 400 /\ analysis = NoAnalysis
    ELSE status = 200 /\ analysis # NoAnalysis

C8_Witness ==
  /\ AnalyzeDone
  /\ length(req.text) = 50000

\* C9: the priority of the readability suggestion follows the reported
\* readabilityScore: high below 30, medium from 30 to 59, low from 60 on.
C9_PriorityFollowsReportedScore ==
  AnalyzeDone =>
    analysis.suggestions[1].priority =
      (IF analysis.metrics.readabilityScore < 30 THEN "high"
       ELSE IF analysis.metrics.readabilityScore < 60 THEN "medium"
       ELSE "low")

\* C10: on insertion the chosen segment becomes its words before the
\* insertion index, the connector, the keyword and its words from the
\* insertion index on, joined with single spaces, the connector being one of
\* the five; the rest of the text is as it was.
C10_SpliceJoinedBySingleSpaces ==
  (InsertDone /\ spliced) =>
    LET sentences == splitCapture(req.text)
        words     == splitRuns(sentences[bestPosition + 1], Whitespace)
        segment   == join(slice(words, 0, insertIndex)
                            \o <<connector, req.keyword>>
                            \o slice(words, insertIndex, Len(words)), Space)
    IN  /\ \E j \in 1..Len(connectors) : connector = connectors[j]
        /\ updatedText =
             join([j \in 1..Len(sentences) |->
                     IF j = bestPosition + 1 THEN segment ELSE sentences[j]],
                  <<>>)

\* the places (0-based, in the array of segments and delimiters) of the
\* sentence segments of trimmed length >= 10
QualifyingPlaces(text) ==
  LET parts == splitCapture(text)
  IN  {i \in 0..(Len(parts) - 1) :
         i % 2 = 0 /\ length(trim(parts[i + 1])) >= MinSentenceLength}

\* 200 * total times 0.6 * min(w / 20, 1) + 0.4 * (1 - |i - total / 2| / total)
ScaledScore(w, i, total) ==
  6 * (IF w > 20 THEN 20 ELSE w) * total + 80 * total
    - 40 * (IF 2 * i >= total THEN 2 * i - total ELSE total - 2 * i)

\* the score of the segment at place i, its words being the pieces of
\* split(/\s+/)
PlaceScore(text, i) ==
  LET parts == splitCapture(text)
  IN  ScaledScore(Len(splitRuns(parts[i + 1], Whitespace)), i, Len(parts))

\* the score of the segment at place i, its words being its non-empty tokens
TokenScore(text, i) ==
  LET parts == splitCapture(text)
  IN  ScaledScore(TokenCount(parts[i + 1]), i, Len(parts))

\* the text with the segment at place i replaced by seg
WithSegment(text, i, seg) ==
  LET parts == splitCapture(text)
  IN  join(<<join(SubSeq(parts, 1, i), <<>>), seg,
             join(SubSeq(parts, i + 2, Len(parts)), <<>>)>>, <<>>)

\* C11: when a keyword is spliced into a text that has segments of trimmed
\* length >= 10, the segment modified has the maximum score
\* 0.6 * min(words / 20, 1) + 0.4 * (1 - |index - total / 2| / total) among
\* them, words being the number of words of the segment.
C11_MaxTokenScoreSegment ==
  (InsertDone /\ spliced /\ QualifyingPlaces(req.text) # {}) =>
    \A j \in QualifyingPlaces(req.text) :
      TokenScore(req.text, j) <= TokenScore(req.text, bestPosition)

\* What the code does for C11: the segment modified is a qualifying one of
\* the maximum score with the pieces of split(/\s+/) counted as its words (an
\* empty piece for whitespace at either end included), no qualifying segment
\* before it has the same score, and the rest of the text is kept.
C11_MaxPieceScoreSegment ==
  (InsertDone /\ spliced /\ QualifyingPlaces(req.text) # {}) =>
    /\ bestPosition \in QualifyingPlaces(req.text)
    /\ \A j \in QualifyingPlaces(req.text) :
         /\ PlaceScore(req.text, j) <= PlaceScore(req.text, bestPosition)
         /\ PlaceScore(req.text, j) = PlaceScore(req.text, bestPosition)
              => bestPosition <= j
    /\ updatedText # req.text
    /\ updatedText =
         WithSegment(req.text, bestPosition,
                     spliceSentence(splitCapture(req.text)[bestPosition + 1],
                                    insertIndex, connector, req.keyword))

\* the number of whitespace-delimited words of the segment at place i, as
\* the code splits it
SegmentWords(text, i) == Len(splitRuns(splitCapture(text)[i + 1], Whitespace))

\* C12: when a keyword is spliced into a segment of n words (here: one of
\* trimmed length >= 10), the insertion index i satisfies 0 < i < n: the
\* connector and the keyword are placed neither before the first word nor
\* after the last one.
C12_InsertIndexInside ==
  (InsertDone /\ spliced /\ bestPosition \in QualifyingPlaces(req.text)) =>
    /\ 0 < insertIndex
    /\ insertIndex < SegmentWords(req.text, bestPosition)

\* s begins with p
StartsWith(s, p) ==
  \/ Len(p) = 0
  \/ /\ Len(p) <= Len(s)
     /\ \A j \in 1..(Len(p) - 1) : s[j] = p[j]
     /\ s[Len(p)].c = p[Len(p)].c
     /\ s[Len(p)].n >= p[Len(p)].n

\* s ends with p
EndsWith(s, p) ==
  \/ Len(p) = 0
  \/ /\ Len(p) <= Len(s)
     /\ \A j \in 2..Len(p) : s[Len(s) - Len(p) + j] = p[j]
     /\ s[Len(s) - Len(p) + 1].c = p[1].c
     /\ s[Len(s) - Len(p) + 1].n >= p[1].n

\* the number of runs the parts at places lo..hi take up
RECURSIVE RunsIn(_, _, _)
RunsIn(parts, lo, hi) ==
  IF lo > hi THEN 0
  ELSE IF lo = hi THEN Len(parts[lo])
  ELSE RunsIn(parts, lo, (lo + hi) \div 2)
         + RunsIn(parts, (lo + hi) \div 2 + 1, hi)

\* the number of runs the first k parts of the split of text take up
RunsBefore(text, k) == RunsIn(splitCapture(text), 1, k)

\* the text before the segment at place i, and the text after it
TextBefore(text, i) == SubSeq(text, 1, RunsBefore(text, i))

TextAfter(text, i) == SubSeq(text, RunsBefore(text, i + 1) + 1, Len(text))

\* C13: updatedText is the text with nothing but the chosen segment changed:
\* it begins with everything that stands before the chosen segment in the
\* text and ends with everything that stands after it, segments and
\* delimiters with their trailing whitespace alike.
C13_OnlyChosenSegmentChanges ==
  InsertDone =>
    \A textBefore \in {TextBefore(req.text, bestPosition)},
       textAfter \in {TextAfter(req.text, bestPosition)} :
      /\ StartsWith(updatedText, textBefore)
      /\ EndsWith(updatedText, textAfter)
      /\ length(updatedText) >= length(textBefore) + length(textAfter)
      /\ ~spliced => updatedText = req.text

C13_Witness ==
  /\ InsertDone
  /\ spliced
  /\ Len(TextBefore(req.text, bestPosition)) > 0
  /\ Len(TextAfter(req.text, bestPosition)) > 0
  /\ \E j \in QualifyingPlaces(req.text) : j # bestPosition

\* the extracted candidates of the response: all but the curated ones
Extracted ==
  SubSeq(analysis.keywords, 1, Len(analysis.keywords) - SuggestedCap)

\* the lower-case letters and the digits
AlphaNumerics == {LowerChars[i] : i \in 1..26} \cup Digits

\* a word lower-cased, with every character that is not a letter or a digit
\* taken out
StripNonAlphanumeric(word) ==
  canon(SelectSeq(toLowerCase(word), LAMBDA r : r.c \in AlphaNumerics))

\* C14: every extracted keyword consists of lower-case letters and digits
\* only, is longer than 3 characters, is no stop word, and is some word of
\* the text lower-cased and stripped of its non-alphanumeric characters.
C14_KeywordIsCleanedWord ==
  AnalyzeDone =>
    \A j \in 1..Len(Extracted) :
      /\ \A i \in 1..Len(Extracted[j].keyword) :
           Extracted[j].keyword[i].c \in AlphaNumerics
      /\ length(Extracted[j].keyword) > 3
      /\ Extracted[j].keyword \notin commonWords
      /\ \E w \in 1..Len(wordsOf(req.text)) :
           StripNonAlphanumeric(wordsOf(req.text)[w]) = Extracted[j].keyword

\* the number of words of the text whose cleaned form is the keyword
Occurrences(text, keyword) ==
  Cardinality({w \in 1..Len(wordsOf(text)) : cleanWordOf(wordsOf(text)[w]) = keyword})

\* C15: every extracted candidate has as frequency an integer >= 1, the
\* number of words of the text whose cleaned form is its keyword, no keyword
\* is listed twice, and its relevance is min(100, frequency / wordCount * 1000).
C15_FrequencyCounts ==
  AnalyzeDone =>
    \A j \in 1..Len(Extracted) :
      /\ Extracted[j].frequency.type = "number"
      /\ Extracted[j].frequency.n >= 1
      /\ Extracted[j].frequency.n = Occurrences(req.text, Extracted[j].keyword)
      /\ \A k \in 1..Len(Extracted) :
           Extracted[k].keyword = Extracted[j].keyword => k = j
      /\ LET f == Extracted[j].frequency.n
             w == analysis.metrics.wordCount
         IN  Extracted[j].relevance =
               (IF 1000 * f > 100 * w THEN <<100, 1>> ELSE <<1000 * f, w>>)

\* the cleaned words of the text that are counted: longer than 3 characters
\* and no stop word
CountedSet(text) ==
  {w \in {cleanWordOf(wordsOf(text)[i]) : i \in 1..Len(wordsOf(text))} :
     length(w) > 3 /\ w \notin commonWords}

\* the place in the text of the first word whose cleaned form is w
FirstAt(text, w) ==
  CHOOSE i \in 1..Len(wordsOf(text)) :
    /\ cleanWordOf(wordsOf(text)[i]) = w
    /\ \A j \in 1..(i - 1) : cleanWordOf(wordsOf(text)[j]) # w

\* w ranks before v: it is more frequent, or as frequent and met earlier
RanksBefore(text, w, v) ==
  \/ Occurrences(text, w) > Occurrences(text, v)
  \/ /\ Occurrences(text, w) = Occurrences(text, v)
     /\ FirstAt(text, w) < FirstAt(text, v)

\* C16: the extracted candidates are the 10 most frequent cleaned words (all
\* of them when there are fewer), in non-increasing frequency, those of equal
\* frequency in the order of their first occurrence in the text; no word left
\* out ranks before a listed one.
C16_TopTenFirstMetFirst ==
  AnalyzeDone =>
    /\ Len(Extracted) =
         (IF Cardinality(CountedSet(req.text)) > TopKeywordCap
          THEN TopKeywordCap ELSE Cardinality(CountedSet(req.text)))
    /\ \A j \in 1..Len(Extracted) : Extracted[j].keyword \in CountedSet(req.text)
    /\ \A j, k \in 1..Len(Extracted) :
         j < k => RanksBefore(req.text, Extracted[j].keyword, Extracted[k].keyword)
    /\ \A w \in CountedSet(req.text) :
         (\A j \in 1..Len(Extracted) : Extracted[j].keyword # w)
           => \A j \in 1..Len(Extracted) :
                RanksBefore(req.text, Extracted[j].keyword, w)

ExtractedOf(text) ==
  SubSeq(analyzeSEO(text, 0).keywords, 1,
         Len(analyzeSEO(text, 0).keywords) - SuggestedCap)

\* C18: inserting an extracted candidate of analyze(T) into T itself reports
\* inserted == false and returns T unchanged: the keyword counts as present.
C18_ExtractedCountsAsPresent ==
  (/\ InsertDone
   /\ Len(trim(req.text)) > 0
   /\ \E j \in 1..Len(ExtractedOf(req.text)) :
        ExtractedOf(req.text)[j].keyword = req.keyword)
    => (~inserted /\ updatedText = req.text)

\* the part of an analysis that is not drawn from Math.random: the metrics,
\* the suggestions, keyword, frequency and relevance of an extracted
\* candidate, keyword and frequency of a curated one
StableOf(a) ==
  [metrics     |-> a.metrics,
   suggestions |-> a.suggestions,
   keywords    |->
     [j \in 1..Len(a.keywords) |->
        IF j <= Len(a.keywords) - SuggestedCap
        THEN [keyword   |-> a.keywords[j].keyword,
              frequency |-> a.keywords[j].frequency,
              relevance |-> a.keywords[j].relevance]
        ELSE [keyword   |-> a.keywords[j].keyword,
              frequency |-> a.keywords[j].frequency]]]

\* C19: apart from the drawn fields a response is a function of the request.
\* Whatever the state of Math.random at the call, an analyze response has the
\* metrics, suggestions and candidate keywords, frequencies and relevances
\* of the call made with the random source at 0, and an insert response has
\* its inserted flag and its chosen segment: the two texts agree outside
\* that segment and are equal when index and connector are.
C19_FunctionsOfInputs ==
  /\ AnalyzeDone => StableOf(analysis) = StableOf(analyzeSEO(req.text, 0))
  /\ InsertDone =>
       \A o \in {insertKeywordIntelligently(req.text, req.keyword, 0)} :
         /\ inserted = (o.updatedText # req.text)
         /\ spliced = o.spliced
         /\ bestPosition = o.bestPosition
         /\ StartsWith(o.updatedText, TextBefore(req.text, o.bestPosition))
         /\ EndsWith(o.updatedText, TextAfter(req.text, o.bestPosition))
         /\ (insertIndex = o.insertIndex /\ connector = o.connector)
              => updatedText = o.updatedText

\* an insertion after an analysis of the same text, both with drawn fields
\* that differ from those of the call made with the random source at 0
C19_Witness ==
  /\ InsertDone
  /\ spliced
  /\ calls = 1
  /\ Len(Extracted) > 0
  /\ analysis # analyzeSEO(req.text, 0)
  /\ insertIndex # insertKeywordIntelligently(req.text, req.keyword, 0).insertIndex
  /\ connector # insertKeywordIntelligently(req.text, req.keyword, 0).connector

====
